---------------------------- MODULE Spec2Model ----------------------------
(***************************************************************************)
(* A model of the REXA news crawler: the relevance cascade                 *)
(* (src/common.py) and the crawl run with its two deduplication steps      *)
(* (src/crawler.py).                                                       *)
(*                                                                         *)
(* Texts.  A title is a sequence of one-character strings, so that         *)
(* lower(), strip(), replace(' ', '') and SequenceMatcher are computed on  *)
(* characters.  Keyword tests of the form `kw in text` are made on         *)
(* `terms`, the set of vocabulary terms that occur in                      *)
(* (title + " " + description).lower().                                    *)
(*                                                                         *)
(* JSON values.  Python compares and tests values of any type, so a value  *)
(* that the classifier returns keeps its type: is_relevant is the name of  *)
(* a JSON value ("true", "false", or a JSON string) and relevance_score is *)
(* a pair <<type, number>>.                                                *)
(***************************************************************************)
EXTENDS Integers, Sequences, FiniteSets, TLC

VARIABLES
    pc,             \* position of auto_crawl / of the function under check
    api_key,        \* OPENAI_API_KEY is set
    gsheet_ok,      \* gsheet_worksheet is initialised
    sheet,          \* rows of the persistent store
    processed,      \* search_naver_news: processed_items
    idx,            \* index of the running loop
    filtered,       \* filter_news_batch: filtered
    fault,          \* the exception search_naver_news caught, "" if none
    news_items,     \* auto_crawl: news_items
    new_news_items, \* auto_crawl: new_news_items
    filter_stats,   \* filter_news_batch: rejection counters
    recent_urls,    \* auto_crawl: snapshot of get_recent_urls_from_gsheet(3)
    recent_titles,  \* auto_crawl: snapshot of get_recent_titles_from_gsheet(24)
    dropped,        \* history step: <<item, logged reason>> of every dropped item
    saved,          \* rows appended by save_all_news_background in this run
    stats,          \* CrawlStats
    outcome,        \* how the run ended
    fn_in,          \* input of the pure function under check
    fn_out,         \* its outputs
    calls,          \* classifier calls made for each item of the running batch
    events          \* requests, delays and writes, in the order they happen

vars == <<pc, api_key, gsheet_ok, sheet, processed, idx, filtered, fault, news_items,
          new_news_items, filter_stats, recent_urls, recent_titles, dropped, saved,
          stats, outcome, fn_in, fn_out, calls, events>>

-----------------------------------------------------------------------------
(* Bounds *)

MaxBatch == 2
MaxDedup == 3

-----------------------------------------------------------------------------
(* Generic helpers *)

Range(s) == {s[i] : i \in 1..Len(s)}

SeqsUpTo(S, n) == UNION {[1..k -> S] : k \in 0..n}

\* dict.get(key, default)
Get(d, key, default) == IF key \in DOMAIN d THEN d[key] ELSE default

\* dict.update(other)
Update(d, other) ==
    [k \in (DOMAIN d) \cup (DOMAIN other) |->
        IF k \in DOMAIN other THEN other[k] ELSE d[k]]

JInt(n) == <<"int", n>>
JStr(n) == <<"str", n>>

-----------------------------------------------------------------------------
(* Strings *)

\* str.lower(), one character
LowerChar(c) == IF c = "A" THEN "a" ELSE IF c = "B" THEN "b" ELSE c

\* str.lower()
Lower(s) == [i \in 1..Len(s) |-> LowerChar(s[i])]

RECURSIVE LStrip(_)
LStrip(s) == IF s # <<>> /\ Head(s) = " " THEN LStrip(Tail(s)) ELSE s

RECURSIVE RStrip(_)
RStrip(s) ==
    IF s # <<>> /\ s[Len(s)] = " " THEN RStrip(SubSeq(s, 1, Len(s) - 1)) ELSE s

\* str.strip()
Strip(s) == RStrip(LStrip(s))

\* str.replace(' ', '')
RemoveSpaces(s) == SelectSeq(s, LAMBDA c : c # " ")

-----------------------------------------------------------------------------
(* difflib.SequenceMatcher(None, a, b).ratio(), as used by                  *)
(* calculate_title_similarity: the matching blocks are found by taking the  *)
(* longest common block (earliest in a, then earliest in b) and recursing   *)
(* on the pieces to its left and to its right.                              *)

RECURSIVE CommonLen(_, _, _, _)
CommonLen(a, b, i, j) ==
    IF i <= Len(a) /\ j <= Len(b) /\ a[i] = b[j]
    THEN 1 + CommonLen(a, b, i + 1, j + 1)
    ELSE 0

\* find_longest_match: <<i, j, k>>
LongestMatch(a, b) ==
    LET P    == (1..Len(a)) \X (1..Len(b))
        best == CHOOSE p \in P :
                    \A q \in P :
                        LET kp == CommonLen(a, b, p[1], p[2])
                            kq == CommonLen(a, b, q[1], q[2])
                        IN  \/ kp > kq
                            \/ kp = kq /\ p[1] < q[1]
                            \/ kp = kq /\ p[1] = q[1] /\ p[2] <= q[2]
    IN  <<best[1], best[2], CommonLen(a, b, best[1], best[2])>>

\* sum of the sizes of get_matching_blocks()
RECURSIVE Matches(_, _)
Matches(a, b) ==
    IF a = <<>> \/ b = <<>> THEN 0
    ELSE LET m == LongestMatch(a, b)
             i == m[1]
             j == m[2]
             k == m[3]
         IN  IF k = 0 THEN 0
             ELSE k + Matches(SubSeq(a, 1, i - 1), SubSeq(b, 1, j - 1))
                    + Matches(SubSeq(a, i + k, Len(a)), SubSeq(b, j + k, Len(b)))

\* Titles: a chain ("aba" ~ "abac" ~ "bbac" while "aba" and "bbac" are not
\* similar at 0.75), two titles equal up to case and outer spaces, a pair on
\* which ratio() is not symmetric ("aba", "babba"), and an unrelated one.
Titles ==
    { <<"a","b","a">>, <<"A","b","a"," ">>, <<"a","b","a","c">>,
      <<"b","b","a","c">>, <<"b","a","b","b","a">>, <<"c","c","c">> }

\* Matches on the titles above, computed once
KnownMatches ==
    LET N == {Strip(Lower(t)) : t \in Titles}
    IN  [p \in N \X N |-> Matches(p[1], p[2])]

MatchCount(a, b) ==
    IF <<a, b>> \in DOMAIN KnownMatches THEN KnownMatches[<<a, b>>] ELSE Matches(a, b)

\* calculate_title_similarity(title1, title2) >= num/den.  ratio() is
\* 2.0 * matches / (len(a) + len(b)), and 1.0 when both are empty.
SimilarAtLeast(title1, title2, num, den) ==
    LET t1 == Strip(Lower(title1))
        t2 == Strip(Lower(title2))
        T  == Len(t1) + Len(t2)
    IN  IF T = 0 THEN den >= num
        ELSE 2 * MatchCount(t1, t2) * den >= num * T

-----------------------------------------------------------------------------
(* Curated inputs *)

LinkNames == <<"u1", "u2", "u3", "u4", "u5">>

\* auto_crawl calls remove_duplicate_news(news_items, similarity_threshold=0.75)
SimThresholdNum == 3
SimThresholdDen == 4

Thresholds == { <<1, 2>>, <<SimThresholdNum, SimThresholdDen>>, <<1, 1>> }

DedupScores == {75, 90}

-----------------------------------------------------------------------------
(* remove_duplicate_news *)

\* key=lambda x: x.get('relevance_score', 0)
ScoreKey(x) == Get(x, "relevance_score", JInt(0))[2]

\* mutant: x goes in front of the elements whose key equals its own, as
\* sorted(...)[::-1] would order them
InsertByScoreTiesReversed(x, s) ==
    IF s = <<>> THEN <<x>>
    ELSE LET k == Cardinality({i \in 1..Len(s) :
                                 Get(s[i], "relevance_score", <<"int", 0>>)[2]
                                 > Get(x, "relevance_score", <<"int", 0>>)[2]})
         IN  SubSeq(s, 1, k) \o <<x>> \o SubSeq(s, k + 1, Len(s))

\* insert x behind every element whose key is >= its own: the list stays in
\* the order sorted(..., reverse=True) gives, which is stable
RECURSIVE InsertByScore(_, _)
InsertByScore(x, s) ==
    IF s = <<>> THEN <<x>>
    ELSE IF ScoreKey(Head(s)) >= ScoreKey(x)
         THEN <<Head(s)>> \o InsertByScore(x, Tail(s))
         ELSE <<x>> \o s

RECURSIVE SortedByScoreFrom(_, _)
SortedByScoreFrom(items, acc) ==
    IF items = <<>> THEN acc
    ELSE SortedByScoreFrom(Tail(items), InsertByScore(Head(items), acc))

\* mutant: reverse=True is left out, the lowest score comes first
RECURSIVE SortedAscendingFrom(_, _)
SortedAscendingFrom(items, acc) ==
    IF items = <<>> THEN acc
    ELSE LET x == Head(items)
             k == Cardinality({i \in 1..Len(acc) :
                                 Get(acc[i], "relevance_score", <<"int", 0>>)[2]
                                 <= Get(x, "relevance_score", <<"int", 0>>)[2]})
         IN  SortedAscendingFrom(Tail(items),
                                 SubSeq(acc, 1, k) \o <<x>> \o SubSeq(acc, k + 1, Len(acc)))

SortedAscending(items) == SortedAscendingFrom(items, <<>>)

\* sorted(news_items, key=..., reverse=True)
SortedByScore(items) == SortedByScoreFrom(items, <<>>)

\* mutant: similarity > similarity_threshold in place of >=
IsDuplicateStrict(item, unique_news, num, den) ==
    \E i \in 1..Len(unique_news) :
        LET t1 == Strip(Lower(item.title))
            t2 == Strip(Lower(unique_news[i].title))
            T  == Len(t1) + Len(t2)
        IN  IF T = 0 THEN den > num
            ELSE 2 * MatchCount(t1, t2) * den > num * T

\* the inner loop: item is similar to an already selected item
IsDuplicate(item, unique_news, num, den) ==
    \E i \in 1..Len(unique_news) :
        SimilarAtLeast(item.title, unique_news[i].title, num, den)

\* mutant: a kept item is put in front of unique_news instead of behind it
RECURSIVE UniqueFromPrepend(_, _, _, _)
UniqueFromPrepend(sorted_items, unique_news, num, den) ==
    IF sorted_items = <<>> THEN unique_news
    ELSE LET item == Head(sorted_items)
         IN  UniqueFromPrepend(Tail(sorted_items),
                               IF IsDuplicate(item, unique_news, num, den)
                               THEN unique_news
                               ELSE <<item>> \o unique_news,
                               num, den)

RECURSIVE UniqueFrom(_, _, _, _)
UniqueFrom(sorted_items, unique_news, num, den) ==
    IF sorted_items = <<>> THEN unique_news
    ELSE LET item == Head(sorted_items)
         IN  UniqueFrom(Tail(sorted_items),
                        IF IsDuplicate(item, unique_news, num, den)
                        THEN unique_news
                        ELSE Append(unique_news, item),
                        num, den)

RemoveDuplicateNews(items, num, den) ==
    IF items = <<>> THEN <<>>
    ELSE UniqueFrom(SortedByScore(items), <<>>, num, den)

-----------------------------------------------------------------------------
(* Vocabularies of src/common.py, romanised, in list order *)

\* is_headline_news: headline_keywords, then the three regex patterns
HeadlineKeywords ==
    << "oneurui budongsan nyuseu", "oneurui nyuseu", "budongsan nyuseu chongjeongni",
       "hedeurain", "nyuseu beuriping", "nyuseu moeum", "juyo nyuseu",
       "nyuseu jeongni" >>

HeadlinePatterns == << "nyuseu (chong N geon)", "chong N geon", "N geon-ui nyuseu" >>

CelebrityKeywords ==
    << "baeu", "gasu", "yeonyein", "aidol", "taelleonteu",
       "seuta", "selleop", "bangsongin", "komidieon", "gaegeumaen" >>

TransactionKeywords ==
    << "maemae", "maeip", "guip", "gumae", "chwideuk", "satda", "sadeul",
       "maedo", "panmae", "cheobun", "paratda", "para",
       "eogwone", "eokdae", "eogwondae",
       "tuja", "bunyang", "ipju",
       "saejip", "isa" >>

ScandalKeywords ==
    << "bunjaeng", "galdeung", "sosong", "goso", "gobal",
       "hyeomui", "uihok", "nonran", "pongno", "gobal",
       "sagi", "hoengnyeong", "baeim",
       "jeon nampyeon", "jeon buin", "ihon", "wijaryo" >>

RealEstateKeywords ==
    << "apateu", "opiseutel", "bilding", "sangga", "toji", "jutaek",
       "maemae", "jeonse", "wolse", "bunyang", "cheongyak", "ipju",
       "jaegeonchuk", "jaegaebal", "jeongbiguyeok", "budongsan", "jipgap",
       "jutaekgagyeok", "jeonsega", "sise", "judamdae", "jongbuse",
       "yangdose", "chwideukse", "gukdobu", "mibunyang" >>

ExcludeKeywords == << "jusik", "koin", "biteukoin", "peondeu", "chaegwon" >>

PriceKeywords == << "gagyeok", "sise", "eok", "manwon", "sangseung", "harak" >>

PolicyKeywords == << "jeongchaek", "gyuje", "segeum", "daechul", "geumni" >>

SeoulGu ==
    << "gangnamgu", "gangdonggu", "gangbukgu", "gangseogu", "gwanakgu",
       "gwangjingu", "gurogu", "geumcheongu", "nowongu", "dobonggu",
       "dongdaemungu", "dongjakgu", "mapogu", "seodaemungu", "seochogu",
       "seongdonggu", "seongbukgu", "songpagu", "yangcheongu", "yeongdeungpogu",
       "yongsangu", "eunpyeonggu", "jongnogu", "junggu", "jungnanggu" >>

GyeonggiCities ==
    << "seongnamsi", "yonginsi", "suwonsi", "goyangsi", "hwaseongsi",
       "pyeongtaeksi", "bucheonsi", "anyangsi", "namyangjusi" >>

Metropolitan == << "incheon", "busan", "daegu", "daejeon", "gwangju", "ulsan", "sejong" >>

\* <<longer, shorter>>: a text that contains the first term contains the second
ContainedIn ==
    { <<"oneurui budongsan nyuseu", "budongsan">>,
      <<"budongsan nyuseu chongjeongni", "budongsan">>,
      <<"nyuseu (chong N geon)", "chong N geon">>,
      <<"jutaekgagyeok", "jutaek">>, <<"jutaekgagyeok", "gagyeok">>,
      <<"jeonsega", "jeonse">>, <<"mibunyang", "bunyang">>,
      <<"chwideukse", "chwideuk">>, <<"biteukoin", "koin">>,
      <<"eogwone", "eok">>, <<"eokdae", "eok">>, <<"eogwondae", "eok">> }

\* the terms that occur in a text in which the terms of S occur
TextOf(S) == S \cup {p[2] : p \in {q \in ContainedIn : q[1] \in S}}

\* any(kw in text for kw in keywords)
AnyIn(keywords, text) == \E i \in 1..Len(keywords) : keywords[i] \in text

\* [kw for kw in keywords if kw in text]
MatchedIn(keywords, text) == SelectSeq(keywords, LAMBDA kw : kw \in text)

\* sum(1 for kw in keywords if kw in text)
CountIn(keywords, text) == Len(MatchedIn(keywords, text))

Min(a, b) == IF a <= b THEN a ELSE b
Max(a, b) == IF a >= b THEN a ELSE b

-----------------------------------------------------------------------------
(* PreFilter *)

\* is_headline_news(title, description); text is the set of terms of
\* (title + " " + description).lower()
is_headline_news(text) ==
    AnyIn(HeadlineKeywords, text) \/ AnyIn(HeadlinePatterns, text)

ReasonNotCelebrity == << "yeonyein", "nyuseu", "anim" >>
ReasonScandal      == << "yeonyein", "bunjaeng", "/", "seukaendeul", "(budongsan georae mugwan)" >>
ReasonTransaction  == << "yeonyein", "budongsan", "maesu/maedo", "(poham)" >>
ReasonAmbiguous    == << "yeonyein", "gwallyeon", "chuga pandan piryo" >>
ReasonHeadline     == << "hedeurain", "/", "jonghap", "nyuseu" >>

\* mutant: the transaction keywords are tested before the scandal keywords
check_celebrity_scandal_transaction_first(text) ==
    IF ~AnyIn(CelebrityKeywords, text)
    THEN [is_celebrity_news |-> FALSE, should_exclude |-> FALSE,
          reason |-> ReasonNotCelebrity]
    ELSE IF AnyIn(TransactionKeywords, text)
    THEN [is_celebrity_news |-> TRUE, should_exclude |-> FALSE,
          reason |-> ReasonTransaction]
    ELSE IF AnyIn(ScandalKeywords, text)
    THEN [is_celebrity_news |-> TRUE, should_exclude |-> TRUE,
          reason |-> ReasonScandal]
    ELSE [is_celebrity_news |-> TRUE, should_exclude |-> FALSE,
          reason |-> ReasonAmbiguous]

check_celebrity_scandal(text) ==
    LET is_celebrity    == AnyIn(CelebrityKeywords, text)
        has_transaction == AnyIn(TransactionKeywords, text)
        has_scandal     == AnyIn(ScandalKeywords, text)
    IN  IF ~is_celebrity
        THEN [is_celebrity_news |-> FALSE, should_exclude |-> FALSE,
              reason |-> ReasonNotCelebrity]
        ELSE IF has_scandal
        THEN [is_celebrity_news |-> TRUE, should_exclude |-> TRUE,
              reason |-> ReasonScandal]
        ELSE IF has_transaction
        THEN [is_celebrity_news |-> TRUE, should_exclude |-> FALSE,
              reason |-> ReasonTransaction]
        ELSE [is_celebrity_news |-> TRUE, should_exclude |-> FALSE,
              reason |-> ReasonAmbiguous]

\* the verdict the two pre-filter stages return
Rejected(reason) ==
    [is_relevant |-> "false", relevance_score |-> JInt(0), keywords |-> <<>>,
     region |-> <<>>, has_price |-> FALSE, has_policy |-> FALSE,
     reason |-> reason]

-----------------------------------------------------------------------------
(* Keyword strategy *)

extract_region(text) ==
    IF AnyIn(SeoulGu, text)
    THEN <<"seoul", Head(MatchedIn(SeoulGu, text))>>
    ELSE IF AnyIn(GyeonggiCities, text)
    THEN <<"gyeonggi", Head(MatchedIn(GyeonggiCities, text))>>
    ELSE IF AnyIn(Metropolitan, text)
    THEN <<Head(MatchedIn(Metropolitan, text))>>
    ELSE <<>>

\* mutant: the score is not capped at 100
filter_by_keywords_uncapped(text) ==
    LET found == MatchedIn(RealEstateKeywords, text)
        score == Max(0, Len(found) * 30 - CountIn(ExcludeKeywords, text) * 20)
    IN  [is_relevant     |-> IF score >= 30 THEN "true" ELSE "false",
         relevance_score |-> <<"int", score>>,
         keywords        |-> SubSeq(found, 1, Min(5, Len(found))),
         region          |-> extract_region(text),
         has_price       |-> AnyIn(PriceKeywords, text),
         has_policy      |-> AnyIn(PolicyKeywords, text),
         reason          |-> << "kiwodeu maeching giban", ToString(Len(found)) >>]

filter_by_keywords(text) ==
    LET matched  == CountIn(RealEstateKeywords, text)
        excluded == CountIn(ExcludeKeywords, text)
        score    == Max(0, Min(100, matched * 30 - excluded * 20))
        found    == MatchedIn(RealEstateKeywords, text)
    IN  [is_relevant     |-> IF score >= 30 THEN "true" ELSE "false",
         relevance_score |-> JInt(score),
         keywords        |-> SubSeq(found, 1, Min(5, Len(found))),
         region          |-> extract_region(text),
         has_price       |-> AnyIn(PriceKeywords, text),
         has_policy      |-> AnyIn(PolicyKeywords, text),
         reason          |-> << "kiwodeu maeching giban", ToString(matched) >>]

-----------------------------------------------------------------------------
(* Semantic strategy: the classifier call of filter_real_estate_news *)

\* What the call of chat.completions.create and the content it returns can be.
\* kind: "timeout" and "transport" are raised by the call, "nonjson" is content
\* json.loads rejects, "jsonlist" is JSON that is no object, "json" is an object
\* (body) that may or may not follow the verdict schema.
Payload(rel, score, nkw, reason) ==
    [is_relevant |-> rel, relevance_score |-> score,
     keywords |-> SubSeq(RealEstateKeywords, 1, nkw), region |-> <<>>,
     has_price |-> FALSE, has_policy |-> FALSE, reason |-> reason]

Without(d, key) == [k \in (DOMAIN d) \ {key} |-> d[k]]

ReasonGpt == << "gpt", "pandan" >>

P_accept      == Payload("true", JInt(90), 2, ReasonGpt)
P_threshold   == Payload("true", JInt(75), 1, ReasonGpt)
P_low         == Payload("true", JInt(60), 1, ReasonGpt)
P_irrelevant  == Payload("false", JInt(10), 0, ReasonGpt)
P_false_high  == Payload("false", JInt(80), 0, ReasonGpt)
P_no_relevant == Without(P_accept, "is_relevant")
P_no_score    == Without(P_accept, "relevance_score")
P_score_range == Payload("true", JInt(150), 1, ReasonGpt)
P_score_text  == Payload("true", JStr(0), 1, ReasonGpt)
P_rel_text    == Payload("str:false", JInt(80), 1, ReasonGpt)
P_keywords    == Payload("true", JInt(90), 6, ReasonGpt)

Json(body) == [kind |-> "json", body |-> body]
Failure(kind) == [kind |-> kind, body |-> <<>>]

Outcomes ==
    { Failure("timeout"), Failure("transport"), Failure("nonjson"),
      Failure("jsonlist") }
    \cup { Json(b) : b \in { P_accept, P_threshold, P_low, P_irrelevant,
                             P_false_high, P_no_relevant, P_no_score,
                             P_score_range, P_score_text, P_rel_text,
                             P_keywords } }

\* the value of a Python expression: exc = "" when it returns val
Ok(val) == [exc |-> "", val |-> val]
Raise(exc) == [exc |-> exc, val |-> <<>>]

\* bool(v) of a JSON value
Truthy(v) == v \notin {"false", "null", "str:", "num:0"}

\* lines 259-276: the body of the try block
SemanticTry(o) ==
    IF o.kind = "timeout" THEN Raise("Timeout")
    ELSE IF o.kind = "transport" THEN Raise("APIConnectionError")
    ELSE IF o.kind = "nonjson" THEN Raise("JSONDecodeError")
    ELSE IF o.kind = "jsonlist" THEN Raise("TypeError")
    ELSE IF "is_relevant" \notin DOMAIN o.body THEN Raise("KeyError")
    ELSE IF "relevance_score" \notin DOMAIN o.body THEN Raise("KeyError")
    ELSE Ok(o.body)

\* mutant: the handler names the transport exceptions only
CaughtTransportOnly(exc) == exc \in {"Timeout", "APIConnectionError"}

\* line 278: except Exception
Caught(exc) == TRUE

\* filter_real_estate_news(title, description); key is OPENAI_API_KEY being
\* set, o the outcome of the classifier call if it is made
filter_real_estate_news(text, key, o) ==
    IF is_headline_news(text) THEN Ok(Rejected(ReasonHeadline))
    ELSE IF check_celebrity_scandal(text).should_exclude
    THEN Ok(Rejected(check_celebrity_scandal(text).reason))
    ELSE IF ~key THEN Ok(filter_by_keywords(text))
    ELSE LET r == SemanticTry(o)
         IN  IF r.exc = "" THEN r
             ELSE IF Caught(r.exc) THEN Ok(filter_by_keywords(text))
             ELSE r

\* mutant: a call that raised Timeout or APIConnectionError is made once more
classifier_calls_retry(text, key, o) ==
    IF is_headline_news(text) THEN 0
    ELSE IF check_celebrity_scandal(text).should_exclude THEN 0
    ELSE IF ~key THEN 0
    ELSE IF o.kind \in {"timeout", "transport"} THEN 2
    ELSE 1

\* the number of times filter_real_estate_news runs chat.completions.create:
\* the returns of lines 189, 205 and 220 come before the call of line 260,
\* and the handler of line 278 makes no call
classifier_calls(text, key, o) ==
    IF is_headline_news(text) THEN 0
    ELSE IF check_celebrity_scandal(text).should_exclude THEN 0
    ELSE IF ~key THEN 0
    ELSE 1

\* the classifier is called for this text
CallsClassifier(text, key) ==
    /\ ~is_headline_news(text)
    /\ ~check_celebrity_scandal(text).should_exclude
    /\ key

-----------------------------------------------------------------------------
(* BatchGate: one iteration of the loop of filter_news_batch *)

\* result.get('relevance_score', 0) >= 75, a TypeError when the score is no number
ScoreAtLeast75(result) ==
    LET score == Get(result, "relevance_score", JInt(0))
    IN  IF score[1] # "int" THEN Raise("TypeError") ELSE Ok(score[2] >= 75)

\* line 365: result['is_relevant'] and result.get('relevance_score', 0) >= 75
Accepts(result) ==
    IF ~Truthy(result["is_relevant"]) THEN Ok(FALSE) ELSE ScoreAtLeast75(result)

\* mutant: the reason is not looked at, the score alone picks the counter
RejectCounterScoreOnly(result) ==
    LET score == Get(result, "relevance_score", <<"int", 0>>)
    IN  IF score[1] # "int" THEN Raise("TypeError")
        ELSE IF score[2] < 75 THEN Ok("low_score")
        ELSE Ok("not_relevant")

\* lines 369-377: the counter a rejected item is counted under
RejectCounter(result) ==
    LET reason == Range(Get(result, "reason", <<>>))
    IN  IF "hedeurain" \in reason \/ "jonghap" \in reason THEN Ok("headline")
        ELSE IF "yeonyein" \in reason /\ "bunjaeng" \in reason
        THEN Ok("celebrity_scandal")
        ELSE LET ge == ScoreAtLeast75(result)
             IN  IF ge.exc # "" THEN ge
                 ELSE IF ~ge.val THEN Ok("low_score")
                 ELSE Ok("not_relevant")

\* the loop body for one item: <<exc, accepted, counter>>
GateItem(result) ==
    LET a == Accepts(result)
    IN  IF a.exc # "" THEN [exc |-> a.exc, accept |-> FALSE, counter |-> ""]
        ELSE IF a.val THEN [exc |-> "", accept |-> TRUE, counter |-> ""]
        ELSE LET c == RejectCounter(result)
             IN  [exc |-> c.exc, accept |-> FALSE,
                  counter |-> IF c.exc # "" THEN "" ELSE c.val]

-----------------------------------------------------------------------------
(* HistoryDeduplicator: the recency windows and one iteration of the loop *)

\* get_recent_urls_from_gsheet(hours=3), get_recent_titles_from_gsheet(hours=24)
UrlWindowHours == 3
TitleWindowHours == 24

\* title.lower().strip().replace(' ', '')
NormalizeTitle(title) == RemoveSpaces(Strip(Lower(title)))

\* get_recent_urls_from_gsheet: the URLs of the rows not older than `hours`;
\* the empty set when the sheet is not initialised or the read fails
get_recent_urls_from_gsheet(rows, ok, hours) ==
    IF ~ok THEN {}
    ELSE {r.url : r \in {q \in rows : q.age <= hours /\ q.url # ""}}

\* get_recent_titles_from_gsheet: the normalized titles of the rows not older
\* than `hours`
get_recent_titles_from_gsheet(rows, ok, hours) ==
    IF ~ok THEN {}
    ELSE {NormalizeTitle(r.title) :
            r \in {q \in rows : q.age <= hours /\ NormalizeTitle(q.title) # <<>>}}

\* url = item.get('link') or item.get('url', '')
ItemUrl(item) ==
    IF Get(item, "link", "") # "" THEN item.link ELSE Get(item, "url", "")

\* mutant: the title is checked before the URL
HistoryDecisionTitleFirst(item, urls, titles) ==
    LET url == IF Get(item, "link", "") # "" THEN item.link ELSE Get(item, "url", "")
        normalized_title == RemoveSpaces(Strip(Lower(Get(item, "title", <<>>))))
    IN  IF normalized_title # <<>> /\ normalized_title \in titles THEN "title"
        ELSE IF url # "" /\ url \in urls THEN "url"
        ELSE "keep"

\* lines 307-323: "url" and "title" are the two logged reasons of a drop
HistoryDecision(item, urls, titles) ==
    LET url == ItemUrl(item)
        normalized_title == NormalizeTitle(Get(item, "title", <<>>))
    IN  IF url # "" /\ url \in urls THEN "url"
        ELSE IF normalized_title # <<>> /\ normalized_title \in titles THEN "title"
        ELSE "keep"

-----------------------------------------------------------------------------
(* search_naver_news, lines 444-451: the description is cut to 200           *)
(* characters, at the end of a sentence if one is found.  Python counts      *)
(* characters from 0: description[i] is the element i + 1 of the sequence.   *)

\* if len(description) > 200 / cut_pos = 200
DescLimit == 200

\* range(200, max(0, len(description) - 100), -1)
ScanBack == 100

SentenceEnd == {".", "!", "?"}

\* the indices i the loop of line 447 visits at which description[i] ends a
\* sentence
ScanHits(description) ==
    { i \in (Max(0, Len(description) - ScanBack) + 1)..DescLimit :
        description[i + 1] \in SentenceEnd }

\* lines 446-450: the loop goes down from 200 and stops at the first hit
CutPos(description) ==
    LET hits == ScanHits(description)
    IN  IF hits = {} THEN DescLimit
        ELSE (CHOOSE i \in hits : \A j \in hits : j <= i) + 1

\* lines 445-451: description[:cut_pos].strip()
TruncateDescription(description) ==
    IF Len(description) > DescLimit
    THEN Strip(SubSeq(description, 1, CutPos(description)))
    ELSE description

-----------------------------------------------------------------------------
(* Inputs of a run *)

Article(title, terms, link) ==
    [title |-> title, description |-> <<"r", "a", "w", ".">>, link |-> link,
     terms |-> TextOf(terms)]

RawItems ==
    { Article(<<"a","b","a">>, {"apateu", "sise"}, "u1"),
      Article(<<"a","b","a","c">>, {"apateu", "maemae", "jeonse"}, "u2"),
      Article(<<"A","b","a"," ">>, {"hedeurain", "apateu"}, "u2"),
      Article(<<"b","b","a","c">>, {"baeu", "sosong", "maemae"}, "u1"),
      Article(<<"c","c","c">>,
              {"apateu", "bunyang", "cheongyak", "budongsan", "jusik"}, "u1") }

Row(url, title, age) == [url |-> url, title |-> title, age |-> age]

Row1 == Row("u2", <<"c","c","c">>, 1)
Row2 == Row("u9", <<"A","b","a"," ">>, 12)
Row3 == Row("u1", <<"b","b","a","c">>, 48)
Row4 == Row("u1", <<"b","b","a","c">>, 2)

Sheets == { {}, {Row1}, {Row2}, {Row3}, {Row1, Row2}, {Row2, Row3, Row4} }

\* stats.total_fetched = 20
TotalFetched == 20

NoCall == Failure("nocall")

ZeroStats == [headline |-> 0, celebrity_scandal |-> 0, low_score |-> 0, not_relevant |-> 0]

-----------------------------------------------------------------------------
(* The run: auto_crawl *)

Init ==
    /\ pc = "search"
    /\ api_key \in BOOLEAN
    /\ gsheet_ok \in BOOLEAN
    /\ sheet \in (IF gsheet_ok THEN Sheets ELSE {{}})
    /\ processed = <<>>
    /\ idx = 0
    /\ filtered = <<>>
    /\ fault = ""
    /\ news_items = <<>>
    /\ new_news_items = <<>>
    /\ filter_stats = ZeroStats
    /\ recent_urls = {}
    /\ recent_titles = {}
    /\ dropped = <<>>
    /\ saved = <<>>
    /\ stats = [total_fetched |-> 0, total_filtered |-> 0, total_saved |-> 0]
    /\ outcome = "running"
    /\ calls = <<>>
    /\ events = <<>>
    /\ fn_in = <<>>
    /\ fn_out = <<>>

\* search_naver_news: the request fails or returns no items, the function
\* returns None and auto_crawl returns at line 255
SearchFails ==
    /\ pc = "search"
    /\ pc' = "done"
    /\ outcome' = "no_news"
    /\ UNCHANGED <<api_key, gsheet_ok, sheet, processed, idx, filtered, fault,
                   news_items, new_news_items, filter_stats, recent_urls,
                   recent_titles, dropped, saved, stats, fn_in, fn_out,
                   calls, events>>

\* search_naver_news, lines 419-463: the items are processed and
\* filter_news_batch starts
SearchReturns ==
    /\ pc = "search"
    /\ \E batch \in SeqsUpTo(RawItems, MaxBatch) \ {<<>>} :
          processed' = [i \in 1..Len(batch) |->
                          [batch[i] EXCEPT
                             !.description = TruncateDescription(@)]]
    /\ filtered' = <<>>
    /\ filter_stats' = ZeroStats
    /\ calls' = <<>>
    /\ idx' = 1
    /\ pc' = "filter"
    /\ UNCHANGED <<api_key, gsheet_ok, sheet, fault, news_items, new_news_items,
                   recent_urls, recent_titles, dropped, saved, stats, outcome,
                   fn_in, fn_out, events>>

\* filter_news_batch, lines 360-377, for processed[idx]; an exception leaves
\* filter_news_batch and is caught at line 470, where search_naver_news
\* returns None and auto_crawl returns at line 255
FilterItem ==
    /\ pc = "filter"
    /\ idx <= Len(processed)
    /\ LET item == processed[idx]
       IN  \E o \in (IF CallsClassifier(item.terms, api_key)
                     THEN Outcomes ELSE {NoCall}) :
             LET r == filter_real_estate_news(item.terms, api_key, o)
             IN  /\ calls' = Append(calls, classifier_calls(item.terms, api_key, o))
                 /\ IF r.exc # ""
                    THEN /\ fault' = r.exc
                         /\ pc' = "done"
                         /\ outcome' = "no_news"
                         /\ UNCHANGED <<processed, idx, filtered, filter_stats>>
                    ELSE LET g == GateItem(r.val)
                             updated == Update(item, r.val)
                         IN  /\ processed' = [processed EXCEPT ![idx] = updated]
                             /\ IF g.exc # ""
                                THEN /\ fault' = g.exc
                                     /\ pc' = "done"
                                     /\ outcome' = "no_news"
                                     /\ UNCHANGED <<idx, filtered, filter_stats>>
                                ELSE /\ filtered' = IF g.accept
                                                    THEN Append(filtered, updated)
                                                    ELSE filtered
                                     /\ filter_stats' =
                                           IF g.accept THEN filter_stats
                                           ELSE [filter_stats EXCEPT
                                                   ![g.counter] = @ + 1]
                                     /\ idx' = idx + 1
                                     /\ UNCHANGED <<fault, pc, outcome>>
    /\ UNCHANGED <<api_key, gsheet_ok, sheet, news_items, new_news_items,
                   recent_urls, recent_titles, dropped, saved, stats, fn_in, fn_out,
                   events>>

\* filter_news_batch returns filtered, search_naver_news returns it (line 468)
FilterDone ==
    /\ pc = "filter"
    /\ idx > Len(processed)
    /\ news_items' = filtered
    /\ pc' = "searched"
    /\ UNCHANGED <<api_key, gsheet_ok, sheet, processed, idx, filtered, fault,
                   new_news_items, filter_stats, recent_urls, recent_titles,
                   dropped, saved, stats, outcome, fn_in, fn_out,
                   calls, events>>

\* auto_crawl, lines 249-255: nothing passed the filter
NoNews ==
    /\ pc = "searched"
    /\ news_items = <<>>
    /\ pc' = "done"
    /\ outcome' = "no_news"
    /\ UNCHANGED <<api_key, gsheet_ok, sheet, processed, idx, filtered, fault,
                   news_items, new_news_items, filter_stats, recent_urls,
                   recent_titles, dropped, saved, stats, fn_in, fn_out,
                   calls, events>>

\* auto_crawl, lines 257-279: the statistics, then every description is
\* replaced by its summary
Summarize ==
    /\ pc = "searched"
    /\ news_items # <<>>
    /\ stats' = [stats EXCEPT !.total_fetched = TotalFetched,
                              !.total_filtered = Len(news_items)]
    /\ news_items' = [i \in 1..Len(news_items) |->
                        [news_items[i] EXCEPT !.description = <<"summary">>]]
    /\ processed' = <<>>
    /\ filtered' = <<>>
    /\ calls' = <<>>
    /\ idx' = 0
    /\ pc' = "dedup"
    /\ UNCHANGED <<api_key, gsheet_ok, sheet, fault, new_news_items, filter_stats,
                   recent_urls, recent_titles, dropped, saved, outcome, fn_in, fn_out,
                   events>>

\* auto_crawl, line 285
Deduplicate ==
    /\ pc = "dedup"
    /\ news_items' = RemoveDuplicateNews(news_items, SimThresholdNum, SimThresholdDen)
    /\ pc' = "read_history"
    /\ UNCHANGED <<api_key, gsheet_ok, sheet, processed, idx, filtered, fault,
                   new_news_items, filter_stats, recent_urls, recent_titles,
                   dropped, saved, stats, outcome, fn_in, fn_out,
                   calls, events>>

\* auto_crawl, lines 298-304: the two windows are read; a read that fails
\* gives the empty set
ReadHistory ==
    /\ pc = "read_history"
    /\ \E urls_read \in BOOLEAN, titles_read \in BOOLEAN :
          /\ recent_urls' = get_recent_urls_from_gsheet(
                                sheet, gsheet_ok /\ urls_read, UrlWindowHours)
          /\ recent_titles' = get_recent_titles_from_gsheet(
                                sheet, gsheet_ok /\ titles_read, TitleWindowHours)
    /\ new_news_items' = <<>>
    /\ idx' = 1
    /\ pc' = "history"
    /\ UNCHANGED <<api_key, gsheet_ok, sheet, processed, filtered, fault, news_items,
                   filter_stats, dropped, saved, stats, outcome, fn_in, fn_out,
                   calls, events>>

\* mutant: a kept item's URL and title are added to the windows
HistoryItemAddsToWindows ==
    /\ pc = "history"
    /\ idx <= Len(news_items)
    /\ LET item == news_items[idx]
           url == IF Get(item, "link", "") # "" THEN item.link ELSE Get(item, "url", "")
           normalized_title == RemoveSpaces(Strip(Lower(Get(item, "title", <<>>))))
           dup == \/ url # "" /\ url \in recent_urls
                  \/ normalized_title # <<>> /\ normalized_title \in recent_titles
       IN  IF ~dup
           THEN /\ new_news_items' = Append(new_news_items, item)
                /\ recent_urls' = recent_urls \cup {url}
                /\ recent_titles' = recent_titles \cup {normalized_title}
                /\ UNCHANGED dropped
           ELSE /\ dropped' = Append(dropped,
                        <<item, IF url # "" /\ url \in recent_urls THEN "url" ELSE "title">>)
                /\ UNCHANGED <<new_news_items, recent_urls, recent_titles>>
    /\ idx' = idx + 1
    /\ UNCHANGED <<pc, api_key, gsheet_ok, sheet, processed, filtered, fault, news_items,
                   filter_stats, saved, stats, outcome, fn_in, fn_out,
                   calls, events>>

\* auto_crawl, lines 306-323, for news_items[idx]
HistoryItem ==
    /\ pc = "history"
    /\ idx <= Len(news_items)
    /\ LET item == news_items[idx]
           d == HistoryDecision(item, recent_urls, recent_titles)
       IN  IF d = "keep"
           THEN /\ new_news_items' = Append(new_news_items, item)
                /\ UNCHANGED dropped
           ELSE /\ dropped' = Append(dropped, <<item, d>>)
                /\ UNCHANGED new_news_items
    /\ idx' = idx + 1
    /\ UNCHANGED <<pc, api_key, gsheet_ok, sheet, processed, filtered, fault, news_items,
                   filter_stats, recent_urls, recent_titles, saved, stats, outcome,
                   fn_in, fn_out,
                   calls, events>>

\* auto_crawl, lines 325-339: nothing new is left
NoNewNews ==
    /\ pc = "history"
    /\ idx > Len(news_items)
    /\ new_news_items = <<>>
    /\ news_items' = new_news_items
    /\ pc' = "done"
    /\ outcome' = "no_new_news"
    /\ UNCHANGED <<api_key, gsheet_ok, sheet, processed, idx, filtered, fault,
                   new_news_items, filter_stats, recent_urls, recent_titles,
                   dropped, saved, stats, fn_in, fn_out,
                   calls, events>>

\* auto_crawl, lines 325-344: save_all_news_background is called
StartSaving ==
    /\ pc = "history"
    /\ idx > Len(news_items)
    /\ new_news_items # <<>>
    /\ news_items' = new_news_items
    /\ idx' = 1
    /\ pc' = "save"
    /\ UNCHANGED <<api_key, gsheet_ok, sheet, processed, filtered, fault,
                   new_news_items, filter_stats, recent_urls, recent_titles,
                   dropped, saved, stats, outcome, fn_in, fn_out,
                   calls, events>>

\* mutant: the delay is made for every item, the first one too
PacingDelayEveryItem(i) == << <<"sleep", i>> >>

\* lines 721-722: if idx > 0: await asyncio.sleep(0.5), idx counted from 0
PacingDelay(i) == IF i > 0 THEN << <<"sleep", i>> >> ELSE <<>>

\* save_all_news_background, lines 719-753, for news_items[idx]:
\* save_news_to_csv and save_news_to_gsheet each write the row or fail and
\* return False
SaveItem ==
    /\ pc = "save"
    /\ idx <= Len(news_items)
    /\ LET item == Update(news_items[idx],
                          [url |-> ItemUrl(news_items[idx]), user_id |-> "auto_crawler"])
       IN  \E csv_ok \in BOOLEAN, gs_ok \in BOOLEAN :
             /\ news_items' = [news_items EXCEPT ![idx] = item]
             /\ saved' = saved
                         \o (IF csv_ok THEN << <<"csv", item>> >> ELSE <<>>)
                         \o (IF gsheet_ok /\ gs_ok THEN << <<"gsheet", item>> >> ELSE <<>>)
             /\ sheet' = IF gsheet_ok /\ gs_ok
                         THEN sheet \cup {Row(item.url, item.title, 0)}
                         ELSE sheet
             /\ events' = events \o PacingDelay(idx - 1)
                                 \o << <<IF csv_ok THEN "csv" ELSE "csv_failed",
                                         idx - 1>>,
                                       <<IF gsheet_ok /\ gs_ok THEN "gsheet"
                                         ELSE "gsheet_failed", idx - 1>> >>
    /\ idx' = idx + 1
    /\ UNCHANGED <<pc, api_key, gsheet_ok, processed, filtered, fault, new_news_items,
                   filter_stats, recent_urls, recent_titles, dropped, stats, outcome,
                   fn_in, fn_out, calls>>

\* auto_crawl, lines 346-352
Complete ==
    /\ pc = "save"
    /\ idx > Len(news_items)
    /\ stats' = [stats EXCEPT !.total_saved = Len(news_items)]
    /\ pc' = "done"
    /\ outcome' = "completed"
    /\ UNCHANGED <<api_key, gsheet_ok, sheet, processed, idx, filtered, fault,
                   news_items, new_news_items, filter_stats, recent_urls,
                   recent_titles, dropped, saved, fn_in, fn_out,
                   calls, events>>

Next ==
    \/ SearchFails
    \/ SearchReturns
    \/ FilterItem
    \/ FilterDone
    \/ NoNews
    \/ Summarize
    \/ Deduplicate
    \/ ReadHistory
    \/ HistoryItem
    \/ NoNewNews
    \/ StartSaving
    \/ SaveItem
    \/ Complete

Spec == Init /\ [][Next]_vars

-----------------------------------------------------------------------------
(* filter_real_estate_news as a function: every text of ClassifyTexts, with  *)
(* and without OPENAI_API_KEY, every outcome of the classifier call.         *)

ClassifyTexts ==
    {it.terms : it \in RawItems}
    \cup { TextOf(S) : S \in { {}, {"baeu", "maeip"}, {"baeu"}, {"gasu", "ihon", "bunyang"},
                               {"chong N geon", "apateu"}, {"jutaekgagyeok", "biteukoin"},
                               {"aidol", "nonran"}, {"maedo", "sagi"},
                               {"hedeurain", "seuta", "uihok"} } }

InitClassify ==
    /\ pc = "classify_input"
    /\ fn_in \in [text : ClassifyTexts, key : BOOLEAN, o : Outcomes]
    /\ fn_out = <<>>
    /\ api_key = fn_in.key
    /\ gsheet_ok = FALSE
    /\ sheet = {}
    /\ processed = <<>>
    /\ idx = 0
    /\ filtered = <<>>
    /\ fault = ""
    /\ news_items = <<>>
    /\ new_news_items = <<>>
    /\ filter_stats = ZeroStats
    /\ recent_urls = {}
    /\ recent_titles = {}
    /\ dropped = <<>>
    /\ saved = <<>>
    /\ stats = [total_fetched |-> 0, total_filtered |-> 0, total_saved |-> 0]
    /\ outcome = "running"
    /\ calls = <<>>
    /\ events = <<>>

\* filter_real_estate_news(title, description)
Classify ==
    /\ pc = "classify_input"
    /\ fn_out' = filter_real_estate_news(fn_in.text, api_key, fn_in.o)
    /\ calls' = << classifier_calls(fn_in.text, api_key, fn_in.o) >>
    /\ pc' = "classified"
    /\ UNCHANGED <<api_key, gsheet_ok, sheet, processed, idx, filtered, fault,
                   news_items, new_news_items, filter_stats, recent_urls,
                   recent_titles, dropped, saved, stats, outcome, fn_in, events>>

\* check_celebrity_scandal(title, description)
CheckCelebrity ==
    /\ pc = "classify_input"
    /\ fn_out' = check_celebrity_scandal(fn_in.text)
    /\ pc' = "celebrity_checked"
    /\ UNCHANGED <<api_key, gsheet_ok, sheet, processed, idx, filtered, fault,
                   news_items, new_news_items, filter_stats, recent_urls,
                   recent_titles, dropped, saved, stats, outcome, fn_in, calls,
                   events>>

NextClassify == Classify \/ CheckCelebrity

SpecClassify == InitClassify /\ [][NextClassify]_vars

-----------------------------------------------------------------------------
(* Claims about filter_real_estate_news, under SpecClassify *)

\* the pre-filter let the text through and the credentials are configured
ClassifierCalled ==
    /\ fn_in.key
    /\ ~is_headline_news(fn_in.text)
    /\ ~check_celebrity_scandal(fn_in.text).should_exclude

VerdictFields ==
    {"is_relevant", "relevance_score", "keywords", "region", "has_price",
     "has_policy", "reason"}

\* a JSON object that is no RelevanceVerdict: a field is missing, is_relevant is
\* no boolean, the score is no integer in 0..100, or there are more than 5
\* keywords
SchemaViolation(body) ==
    \/ ~(VerdictFields \subseteq DOMAIN body)
    \/ body["is_relevant"] \notin {"true", "false"}
    \/ body["relevance_score"][1] # "int"
    \/ body["relevance_score"][2] \notin 0..100
    \/ Len(body["keywords"]) > 5

\* C2: filter_real_estate_news returns a verdict and raises nothing, whatever
\* the text and the outcome of the classifier call; when the call times out,
\* fails in transport or returns no JSON, the verdict is that of
\* filter_by_keywords for the same text.
C2_NeverRaisesFallsBack ==
    pc = "classified" =>
        /\ fn_out.exc = ""
        /\ {"is_relevant", "relevance_score"} \subseteq DOMAIN fn_out.val
        /\ (ClassifierCalled /\ fn_in.o.kind \in {"timeout", "transport", "nonjson"})
              => fn_out.val = filter_by_keywords(fn_in.text)

\* the call was made and returned content that is no JSON, and the keyword
\* verdict came back
C2_Witness ==
    /\ pc = "classified"
    /\ ClassifierCalled
    /\ fn_in.o.kind = "nonjson"
    /\ fn_out.exc = ""
    /\ fn_out.val["relevance_score"] = JInt(90)

\* C3: when the classifier returns a payload that violates the RelevanceVerdict
\* schema, the verdict returned is the keyword-fallback verdict; the payload
\* itself is never returned.
C3_SchemaViolationFallsBack ==
    (/\ pc = "classified"
     /\ ClassifierCalled
     /\ fn_in.o.kind \in {"json", "jsonlist"}
     /\ (fn_in.o.kind = "jsonlist" \/ SchemaViolation(fn_in.o.body)))
        => /\ fn_out.exc = ""
           /\ fn_out.val = filter_by_keywords(fn_in.text)

\* C11: filter_real_estate_news calls the classifier at most once for an item
\* (a call that fails is not made again), never for a text that is_headline_news
\* or check_celebrity_scandal rejects, and never without OPENAI_API_KEY; the
\* verdict is then the pre-filter's rejection or that of filter_by_keywords.
C11_ClassifierCalledAtMostOnce ==
    pc = "classified" =>
        LET text == fn_in.text
            n == calls[1]
        IN  /\ Len(calls) = 1
            /\ n <= 1
            /\ is_headline_news(text) =>
                  n = 0 /\ fn_out.val = Rejected(ReasonHeadline)
            /\ (~is_headline_news(text) /\ AnyIn(CelebrityKeywords, text)
                   /\ AnyIn(ScandalKeywords, text)) =>
                  n = 0 /\ fn_out.val = Rejected(ReasonScandal)
            /\ (~fn_in.key /\ ~is_headline_news(text)
                   /\ ~(AnyIn(CelebrityKeywords, text) /\ AnyIn(ScandalKeywords, text))) =>
                  n = 0 /\ fn_out.val = filter_by_keywords(text)
            /\ (n = 1 /\ fn_in.o.kind \in {"timeout", "transport"}) =>
                  fn_out.val = filter_by_keywords(text)

\* the one call timed out and the keyword verdict was returned
C11_Witness ==
    /\ pc = "classified"
    /\ fn_in.key
    /\ fn_in.o.kind = "timeout"
    /\ calls = <<1>>
    /\ fn_out.val = filter_by_keywords(fn_in.text)

\* no call for a text the pre-filter rejects although the credentials are set
C11_WitnessPreFiltered ==
    /\ pc = "classified"
    /\ fn_in.key
    /\ calls = <<0>>
    /\ fn_out.val = Rejected(ReasonScandal)

\* C13: check_celebrity_scandal follows the decision table: no celebrity term,
\* not excluded; celebrity and scandal term, excluded, with or without a
\* transaction term; celebrity and transaction term without scandal term, not
\* excluded, with the purchase/sale reason; celebrity term alone, not excluded
\* and left to the classifier.  filter_real_estate_news rejects exactly the
\* excluded texts at this stage.
C13_CelebrityDecisionTable ==
    LET text == fn_in.text
        cel == \E k \in Range(CelebrityKeywords) : k \in text
        tra == \E k \in Range(TransactionKeywords) : k \in text
        sca == \E k \in Range(ScandalKeywords) : k \in text
    IN  /\ pc = "celebrity_checked" =>
              /\ fn_out.is_celebrity_news = cel
              /\ fn_out.should_exclude = (cel /\ sca)
              /\ ~cel => fn_out.reason = ReasonNotCelebrity
              /\ (cel /\ sca) => fn_out.reason = ReasonScandal
              /\ (cel /\ tra /\ ~sca) => fn_out.reason = ReasonTransaction
              /\ (cel /\ ~tra /\ ~sca) => fn_out.reason = ReasonAmbiguous
        /\ (pc = "classified" /\ ~is_headline_news(text)) =>
              /\ (cel /\ sca) => fn_out.val = Rejected(ReasonScandal)
              /\ ~(cel /\ sca) => fn_out.val["reason"] # ReasonScandal
              /\ (cel /\ ~sca /\ fn_in.key) => calls = <<1>>

\* a text with a celebrity, a scandal and a transaction term was excluded
C13_Witness ==
    /\ pc = "celebrity_checked"
    /\ "maemae" \in fn_in.text /\ "sosong" \in fn_in.text /\ "baeu" \in fn_in.text
    /\ fn_out.should_exclude

-----------------------------------------------------------------------------
(* remove_duplicate_news as a function: every list of up to MaxDedup items  *)
(* over Titles and DedupScores, every threshold of Thresholds; the function *)
(* is applied, then applied to its own output.                              *)

DedupItem(p, i) ==
    [title |-> p[1], link |-> LinkNames[i], relevance_score |-> JInt(p[2])]

DedupInputs ==
    { [i \in 1..Len(s) |-> DedupItem(s[i], i)] :
        s \in SeqsUpTo(Titles \X DedupScores, MaxDedup) }

InitDedup ==
    /\ pc = "dedup_input"
    /\ fn_in \in [items : DedupInputs, thr : Thresholds]
    /\ fn_out = <<>>
    /\ api_key = FALSE
    /\ gsheet_ok = FALSE
    /\ sheet = {}
    /\ processed = <<>>
    /\ idx = 0
    /\ filtered = <<>>
    /\ fault = ""
    /\ news_items = <<>>
    /\ new_news_items = <<>>
    /\ filter_stats = ZeroStats
    /\ recent_urls = {}
    /\ recent_titles = {}
    /\ dropped = <<>>
    /\ saved = <<>>
    /\ stats = [total_fetched |-> 0, total_filtered |-> 0, total_saved |-> 0]
    /\ outcome = "running"
    /\ calls = <<>>
    /\ events = <<>>

\* remove_duplicate_news(items, threshold)
DedupOnce ==
    /\ pc = "dedup_input"
    /\ fn_out' = << RemoveDuplicateNews(fn_in.items, fn_in.thr[1], fn_in.thr[2]) >>
    /\ pc' = "dedup_once"
    /\ UNCHANGED <<api_key, gsheet_ok, sheet, processed, idx, filtered, fault,
                   news_items, new_news_items, filter_stats, recent_urls,
                   recent_titles, dropped, saved, stats, outcome, fn_in,
                   calls, events>>

\* remove_duplicate_news(remove_duplicate_news(items, threshold), threshold)
DedupTwice ==
    /\ pc = "dedup_once"
    /\ fn_out' = Append(fn_out,
                        RemoveDuplicateNews(fn_out[1], fn_in.thr[1], fn_in.thr[2]))
    /\ pc' = "dedup_twice"
    /\ UNCHANGED <<api_key, gsheet_ok, sheet, processed, idx, filtered, fault,
                   news_items, new_news_items, filter_stats, recent_urls,
                   recent_titles, dropped, saved, stats, outcome, fn_in,
                   calls, events>>

NextDedup == DedupOnce \/ DedupTwice

SpecDedup == InitDedup /\ [][NextDedup]_vars

-----------------------------------------------------------------------------
(* Claims about remove_duplicate_news, under SpecDedup *)

DedupApplied == pc \in {"dedup_once", "dedup_twice"}

DIn == fn_in.items
DOut == fn_out[1]

\* the titles of input items i and j are similar at or above the threshold,
\* as the function compares them (i the candidate, j the selected item)
DSim(i, j) == SimilarAtLeast(DIn[i].title, DIn[j].title, fn_in.thr[1], fn_in.thr[2])

DKept(i) == DIn[i] \in Range(DOut)

\* input item i has the higher score, or the same score and comes earlier
DBefore(i, j) ==
    \/ ScoreKey(DIn[i]) > ScoreKey(DIn[j])
    \/ ScoreKey(DIn[i]) = ScoreKey(DIn[j]) /\ i < j

\* the similarity of every two input items, computed once for a state
DSimAll == [i \in 1..Len(DIn), j \in 1..Len(DIn) |-> DSim(i, j)]

\* a similarity cluster: two or more input items, pairwise similar (sim is
\* DSimAll)
DCluster(G, sim) ==
    /\ Cardinality(G) >= 2
    /\ \A i \in G : \A j \in G \ {i} : sim[i, j]

\* its highest-scoring member, input-earliest on a tie
DTop(G) == CHOOSE i \in G : \A j \in G \ {i} : DBefore(i, j)

\* C5, as claimed: the highest-scoring member of every similarity cluster is in
\* the output, also when it is similar to a higher-scored item outside the
\* cluster.
C5_TopAlwaysKept ==
    pc = "dedup_once" =>
        LET sim == DSimAll
        IN  \A G \in SUBSET (1..Len(DIn)) : DCluster(G, sim) => DKept(DTop(G))

\* C5, amended: the highest-scoring member of every similarity cluster is in
\* the output, unless it is similar at or above the threshold to a kept item
\* outside the cluster that has a higher score, or the same score and an
\* earlier place in the input.
C5_TopKeptUnlessOutside ==
    pc = "dedup_once" =>
        LET sim == DSimAll
        IN  \A G \in SUBSET (1..Len(DIn)) :
                DCluster(G, sim) =>
                    LET top == DTop(G)
                    IN  \/ DKept(top)
                        \/ \E k \in (1..Len(DIn)) \ G :
                               DKept(k) /\ DBefore(k, top) /\ sim[top, k]

\* a chain: one cluster keeps its top and loses a member, another loses its
\* top to a kept item outside it
C5_Witness ==
    /\ pc = "dedup_once"
    /\ \E G \in SUBSET (1..Len(DIn)) :
          DCluster(G, DSimAll) /\ DKept(DTop(G)) /\ \E j \in G : ~DKept(j)
    /\ \E G \in SUBSET (1..Len(DIn)) :
          DCluster(G, DSimAll) /\ ~DKept(DTop(G))

\* C6: of two input items with identical titles at most one is in the output,
\* and a kept one has the higher score or, on equal scores, comes earlier in
\* the input.
C6_IdenticalTitles ==
    DedupApplied =>
        \A i \in 1..Len(DIn) : \A j \in (1..Len(DIn)) \ {i} :
            DIn[i].title = DIn[j].title =>
                /\ ~(DKept(i) /\ DKept(j))
                /\ DKept(i) => DBefore(i, j)

\* two items with one title and one score, the later one dropped, and two with
\* one title where the later has the higher score and is kept
C6_Witness ==
    /\ DedupApplied
    /\ \E i \in 1..Len(DIn) : \E j \in (1..Len(DIn)) \ {i} :
          /\ DIn[i].title = DIn[j].title
          /\ ScoreKey(DIn[i]) = ScoreKey(DIn[j])
          /\ i < j /\ DKept(i) /\ ~DKept(j)
    /\ \E i \in 1..Len(DIn) : \E j \in (1..Len(DIn)) \ {i} :
          /\ DIn[i].title = DIn[j].title
          /\ ScoreKey(DIn[i]) < ScoreKey(DIn[j])
          /\ i < j /\ DKept(j) /\ ~DKept(i)

\* C7: remove_duplicate_news applied to its own output returns that output:
\* the same items in the same order.
C7_Idempotent ==
    pc = "dedup_twice" => fn_out[2] = fn_out[1]

\* the second application ran on an output that was shorter than the input and
\* still had several items, two of them with one score
C7_Witness ==
    /\ pc = "dedup_twice"
    /\ Len(fn_out[1]) < Len(DIn)
    /\ \E i \in 1..Len(fn_out[1]) : \E j \in 1..Len(fn_out[1]) :
          i # j /\ ScoreKey(fn_out[1][i]) = ScoreKey(fn_out[1][j])

\* C18: the output of remove_duplicate_news is in the order of non-increasing
\* score; an item is dropped only if its title is similar, at or above the
\* threshold, to the title of a kept item whose score is not lower than its own;
\* every kept item is similar below the threshold to every item kept before it.
\* The similarity is taken as the function takes it, the later item first.
C18_OrderedOutput ==
    pc = "dedup_once" =>
        LET sim == DSimAll
            at(k) == CHOOSE i \in 1..Len(DIn) : DIn[i] = DOut[k]
        IN  /\ \A k \in 1..(Len(DOut) - 1) :
                  ScoreKey(DOut[k]) >= ScoreKey(DOut[k + 1])
            /\ \A i \in 1..Len(DIn) :
                  ~DKept(i) =>
                      \E j \in 1..Len(DIn) :
                          /\ DKept(j)
                          /\ ScoreKey(DIn[j]) >= ScoreKey(DIn[i])
                          /\ sim[i, j]
            /\ \A k \in 1..Len(DOut) : \A l \in 1..(k - 1) : ~sim[at(k), at(l)]
            /\ \A k \in 1..Len(DOut) : DOut[k] \in Range(DIn)

\* at the threshold of 0.75 an item is dropped whose similarity to a kept item
\* is 0.75 exactly, and two items of different scores are kept
C18_Witness ==
    /\ pc = "dedup_once"
    /\ fn_in.thr = <<SimThresholdNum, SimThresholdDen>>
    /\ \E i \in 1..Len(DIn) : \E j \in 1..Len(DIn) :
          /\ ~DKept(i) /\ DKept(j)
          /\ DIn[i].title = <<"a", "b", "a">>
          /\ DIn[j].title = <<"b", "a", "b", "b", "a">>
    /\ Len(DOut) = 2
    /\ ScoreKey(DOut[1]) > ScoreKey(DOut[2])

-----------------------------------------------------------------------------
(* crawl_news_content as a process: one step for every pass of the retry    *)
(* loop, for both kinds of URL and every pair of outcomes of requests.get   *)
(* and of the extraction.                                                    *)

\* the variables of auto_crawl, which the functions checked on their own leave
\* alone
run_vars ==
    <<api_key, gsheet_ok, sheet, processed, filtered, fault, news_items,
      new_news_items, filter_stats, recent_urls, recent_titles, dropped, saved,
      stats, outcome, calls>>

NoRun ==
    /\ api_key = FALSE
    /\ gsheet_ok = FALSE
    /\ sheet = {}
    /\ processed = <<>>
    /\ filtered = <<>>
    /\ fault = ""
    /\ news_items = <<>>
    /\ new_news_items = <<>>
    /\ filter_stats = ZeroStats
    /\ recent_urls = {}
    /\ recent_titles = {}
    /\ dropped = <<>>
    /\ saved = <<>>
    /\ stats = [total_fetched |-> 0, total_filtered |-> 0, total_saved |-> 0]
    /\ outcome = "running"
    /\ calls = <<>>

\* max_retries = 2
MaxRetries == 2

\* what one requests.get and the extraction that follows can come to: the
\* request times out, raise_for_status raises for 429, 404 or 500, the
\* connection fails, the parser raises, or a page comes back that has the
\* article element, has long paragraphs only, or has neither
FetchOutcomes ==
    { "timeout", "http429", "http404", "http500", "conn_error", "parse_error",
      "page_article", "page_paragraphs", "page_empty" }

StatusCode(o) == IF o = "http429" THEN 429 ELSE IF o = "http404" THEN 404 ELSE 500

Content         == "content"
CannotExtract   == "bonmuneul chuchulhal su eopseumnida."
FailedTimeout   == "bonmuneul gajyeool su eopseumnida. (taimaut)"
FailedRateLimit == "bonmuneul gajyeool su eopseumnida. (Rate Limit)"
FailedHttp(status) ==
    IF status = 404 THEN "bonmuneul gajyeool su eopseumnida. (HTTP 404)"
    ELSE "bonmuneul gajyeool su eopseumnida. (HTTP 500)"
Failed          == "bonmuneul gajyeool su eopseumnida."

\* lines 480-509: the body of the try block; naver is 'news.naver.com' in url
FetchTry(o, naver) ==
    IF o = "timeout" THEN Raise("Timeout")
    ELSE IF o \in {"http429", "http404", "http500"} THEN Raise("HTTPError")
    ELSE IF o = "conn_error" THEN Raise("ConnectionError")
    ELSE IF o = "parse_error" THEN Raise("ParserError")
    ELSE IF naver /\ o = "page_article" THEN Ok(Content)
    ELSE IF o = "page_paragraphs" THEN Ok(Content)
    ELSE Ok(CannotExtract)

Return(val) == [return |-> TRUE, val |-> val, sleep |-> 0]
Continue(seconds) == [return |-> FALSE, val |-> "", sleep |-> seconds]

\* mutant: every HTTP error status is waited for and tried again
crawl_attempt_retry_http(attempt, o, naver) ==
    IF o = "timeout"
    THEN IF attempt < MaxRetries - 1 THEN Continue(2) ELSE Return(FailedTimeout)
    ELSE IF o \in {"http429", "http404", "http500"}
    THEN IF attempt < MaxRetries - 1 THEN Continue(3) ELSE Return(FailedRateLimit)
    ELSE IF o \in {"conn_error", "parse_error"} THEN Return(Failed)
    ELSE IF (naver /\ o = "page_article") \/ o = "page_paragraphs"
    THEN Return(Content)
    ELSE Return(CannotExtract)

\* lines 479-536: one pass of the loop, attempt counted from 0
crawl_attempt(attempt, o, naver) ==
    LET r == FetchTry(o, naver)
    IN  IF r.exc = "" THEN Return(r.val)
        ELSE IF r.exc = "Timeout"
        THEN IF attempt < MaxRetries - 1 THEN Continue(2)
             ELSE Return(FailedTimeout)
        ELSE IF r.exc = "HTTPError"
        THEN IF StatusCode(o) = 429
             THEN IF attempt < MaxRetries - 1 THEN Continue(3)
                  ELSE Return(FailedRateLimit)
             ELSE Return(FailedHttp(StatusCode(o)))
        ELSE Return(Failed)

InitFetch ==
    /\ pc = "fetch"
    /\ fn_in \in [naver : BOOLEAN, outcomes : [1..MaxRetries -> FetchOutcomes]]
    /\ fn_out = <<>>
    /\ idx = 0
    /\ events = <<>>
    /\ NoRun

\* crawl_news_content, lines 478-538: the pass with attempt = idx, or the
\* return behind the loop
FetchAttempt ==
    /\ pc = "fetch"
    /\ IF idx < MaxRetries
       THEN LET a == crawl_attempt(idx, fn_in.outcomes[idx + 1], fn_in.naver)
            IN  /\ events' = events \o << <<"get", idx>> >>
                                \o (IF a.sleep > 0 THEN << <<"sleep", a.sleep>> >>
                                    ELSE <<>>)
                /\ IF a.return
                   THEN /\ fn_out' = a.val
                        /\ pc' = "fetched"
                        /\ idx' = idx
                   ELSE /\ idx' = idx + 1
                        /\ UNCHANGED <<pc, fn_out>>
       ELSE /\ fn_out' = Failed
            /\ pc' = "fetched"
            /\ UNCHANGED <<idx, events>>
    /\ UNCHANGED <<fn_in, run_vars>>

NextFetch == FetchAttempt

\* the loop is run by one thread that nothing blocks: a pass that can be taken
\* is taken
SpecFetch == InitFetch /\ [][NextFetch]_vars /\ WF_vars(NextFetch)

-----------------------------------------------------------------------------
(* Claims about crawl_news_content, under SpecFetch *)

Gets == SelectSeq(events, LAMBDA e : e[1] = "get")

FetchReturns ==
    { Content, CannotExtract, FailedTimeout, FailedRateLimit, FailedHttp(404),
      FailedHttp(500), Failed }

Retryable == {"timeout", "http429"}

FetchSafe ==
    /\ Len(Gets) <= 2
    /\ Len(Gets) = 2 =>
          /\ fn_in.outcomes[1] \in Retryable
          /\ \E i \in 1..Len(events) :
                /\ events[i][1] = "sleep" /\ events[i][2] > 0
                /\ \E j \in 1..(i - 1) : events[j] = <<"get", 0>>
                /\ \E j \in (i + 1)..Len(events) : events[j] = <<"get", 1>>
    /\ pc = "fetched" =>
          /\ fn_out \in FetchReturns
          /\ Len(Gets) >= 1
          /\ fn_in.outcomes[1] \notin Retryable => Len(Gets) = 1
          /\ fn_in.outcomes[1] \in Retryable => Len(Gets) = 2
          /\ fn_out = Content <=>
                \/ fn_in.outcomes[Len(Gets)] = "page_paragraphs"
                \/ fn_in.naver /\ fn_in.outcomes[Len(Gets)] = "page_article"
    /\ pc = "fetch" => \A i \in 1..Len(Gets) : fn_in.outcomes[i] \in Retryable

\* C12: crawl_news_content makes at most 2 requests; the second is made only
\* when the first ended in a timeout or in HTTP 429, and after a delay; any
\* other HTTP status, a parse failure or a page ends the fetch with that
\* request; the function always returns, and what it returns is a string: the
\* content, or a failure sentinel when no content was obtained.
C12_AtMostTwoAttempts ==
    /\ []FetchSafe
    /\ <>(pc = "fetched")

\* the first request got HTTP 429, the second, made after the delay, timed out
C12_Witness ==
    /\ pc = "fetched"
    /\ events = << <<"get", 0>>, <<"sleep", 3>>, <<"get", 1>> >>
    /\ fn_in.outcomes[2] = "timeout"
    /\ fn_out = FailedTimeout

-----------------------------------------------------------------------------
(* filter_by_keywords as a function: every text made of the terms of        *)
(* KeywordPool.                                                              *)

KeywordPool ==
    { "apateu", "jeonse", "bunyang", "cheongyak", "budongsan", "jutaekgagyeok",
      "sise", "jusik", "biteukoin", "peondeu", "gangnamgu" }

KeywordTexts == {TextOf(S) : S \in SUBSET KeywordPool}

InitKeywords ==
    /\ pc = "keyword_input"
    /\ fn_in \in [text : KeywordTexts]
    /\ fn_out = <<>>
    /\ idx = 0
    /\ events = <<>>
    /\ NoRun

\* filter_by_keywords(title, description)
KeywordFilter ==
    /\ pc = "keyword_input"
    /\ fn_out' = filter_by_keywords(fn_in.text)
    /\ pc' = "keyword_filtered"
    /\ UNCHANGED <<fn_in, idx, events, run_vars>>

NextKeywords == KeywordFilter

SpecKeywords == InitKeywords /\ [][NextKeywords]_vars

-----------------------------------------------------------------------------
(* Claims about filter_by_keywords, under SpecKeywords *)

\* the number of distinct terms of a vocabulary found in a text
Positives(text) == Cardinality({k \in Range(RealEstateKeywords) : k \in text})
Negatives(text) == Cardinality({k \in Range(ExcludeKeywords) : k \in text})

Clamp(lo, hi, x) == IF x < lo THEN lo ELSE IF x > hi THEN hi ELSE x

VocabIndex(k) == CHOOSE i \in 1..Len(RealEstateKeywords) : RealEstateKeywords[i] = k

\* <<p, n, score>> of every text of KeywordTexts
KeywordPoints ==
    { <<Positives(t), Negatives(t), filter_by_keywords(t).relevance_score[2]>> :
        t \in KeywordTexts }

\* C14: the score of filter_by_keywords is clamp(0, 100, 30*p - 20*n) for p
\* positive and n negative vocabulary terms found in the text; it lies in
\* 0..100, does not fall when p grows and does not rise when n grows;
\* is_relevant is true exactly when the score is 30 or more; keywords has at
\* most 5 terms, the first matched ones in vocabulary order.
C14_KeywordScoreClamped ==
    pc = "keyword_filtered" =>
        LET text == fn_in.text
            p == Positives(text)
            n == Negatives(text)
            score == fn_out.relevance_score
            kw == fn_out.keywords
        IN  /\ score = JInt(Clamp(0, 100, 30 * p - 20 * n))
            /\ score[2] \in 0..100
            /\ \A q \in KeywordPoints :
                  /\ (q[2] = n /\ q[1] >= p) => q[3] >= score[2]
                  /\ (q[1] = p /\ q[2] >= n) => q[3] <= score[2]
            /\ fn_out.is_relevant \in {"true", "false"}
            /\ fn_out.is_relevant = "true" <=> score[2] >= 30
            /\ Len(kw) = (IF p < 5 THEN p ELSE 5)
            /\ \A i \in 1..Len(kw) : kw[i] \in text
            /\ \A i \in 1..(Len(kw) - 1) : VocabIndex(kw[i]) < VocabIndex(kw[i + 1])
            /\ \A k \in Range(RealEstateKeywords) :
                  (k \in text /\ k \notin Range(kw)) =>
                      \A i \in 1..Len(kw) : VocabIndex(kw[i]) < VocabIndex(k)

\* more than five positive terms and a negative one: the score is capped and
\* the keywords are cut
C14_Witness ==
    /\ pc = "keyword_filtered"
    /\ Positives(fn_in.text) > 5
    /\ Negatives(fn_in.text) >= 1
    /\ fn_out.relevance_score = JInt(100)
    /\ Len(fn_out.keywords) = 5

\* negative terms alone: the score is held at 0
C14_WitnessFloor ==
    /\ pc = "keyword_filtered"
    /\ Positives(fn_in.text) = 1
    /\ Negatives(fn_in.text) = 3
    /\ fn_out.relevance_score = JInt(0)

-----------------------------------------------------------------------------
(* The cut of the description as a function: descriptions of the lengths    *)
(* of DescLengths, with sentence ends at the indices of a subset of         *)
(* DescMarks and blanks at the indices of a subset of DescBlanks.           *)

DescLengths == {150, 200, 201, 202, 250, 299, 300, 301, 400}

\* indices counted from 0, as Python counts them
DescMarks == {101, 150, 199, 200, 201}
DescBlanks == {0, 198}

MarkAt(i) == IF i = 150 THEN "!" ELSE IF i = 199 THEN "?" ELSE "."

Description(len, marks, blanks) ==
    [k \in 1..len |-> IF (k - 1) \in marks THEN MarkAt(k - 1)
                      ELSE IF (k - 1) \in blanks THEN " "
                      ELSE "x"]

InitTruncate ==
    /\ pc = "truncate_input"
    /\ \E len \in DescLengths, marks \in SUBSET DescMarks, blanks \in SUBSET DescBlanks :
          fn_in = Description(len, marks, blanks)
    /\ fn_out = <<>>
    /\ idx = 0
    /\ events = <<>>
    /\ NoRun

\* search_naver_news, lines 444-451
Truncate ==
    /\ pc = "truncate_input"
    /\ fn_out' = TruncateDescription(fn_in)
    /\ pc' = "truncated"
    /\ UNCHANGED <<fn_in, idx, events, run_vars>>

NextTruncate == Truncate

SpecTruncate == InitTruncate /\ [][NextTruncate]_vars

-----------------------------------------------------------------------------
(* Claims about the cut of the description, under SpecTruncate *)

\* C17: the description put on the item has at most 200 characters; when the
\* raw description is longer than 200 characters and a sentence end lies in the
\* scanned range, the description is cut right behind a sentence end and has at
\* most 200 characters.
C17_AtMost200Characters ==
    pc = "truncated" =>
        /\ Len(fn_out) <= 200
        /\ (Len(fn_in) > 200 /\ ScanHits(fn_in) # {}) =>
              \E i \in ScanHits(fn_in) :
                  /\ fn_out = Strip(SubSeq(fn_in, 1, i + 1))
                  /\ i + 1 <= 200

\* What holds in place of C17: the description has at most 201 characters, and
\* 201 only when description[200] ends a sentence.
TruncatedAtMost201 ==
    pc = "truncated" =>
        /\ Len(fn_out) <= 201
        /\ Len(fn_out) = 201 => (Len(fn_in) > 200 /\ fn_in[201] \in SentenceEnd)
        /\ Len(fn_in) <= 200 => fn_out = fn_in

-----------------------------------------------------------------------------
(* Claims about the run, under Spec *)

\* the verdict of an item says relevant and has a score of 75 or more
Relevant75(item) ==
    /\ item["is_relevant"] = "true"
    /\ item["relevance_score"][1] = "int"
    /\ item["relevance_score"][2] >= 75

\* C1: filter_news_batch returns exactly the input items, in input order, whose
\* verdict has isRelevant true and score >= 75.
C1_ExactlyRelevant75 ==
    pc = "searched" => news_items = SelectSeq(processed, Relevant75)

\* C4: a fault on one item of the batch is caught for that item only: when the
\* run ends, every item of the batch has been classified (the loop went on
\* behind the faulty item).
C4_FaultSkipsOneItem ==
    pc = "done" =>
        \A i \in 1..Len(processed) : "is_relevant" \in DOMAIN processed[i]

\* C8: in the history step every item whose URL is in recentUrls is dropped
\* (logged as a URL duplicate, whatever its title), every item whose URL is not
\* in recentUrls and whose normalized title is in recentTitles is dropped
\* (logged as a title duplicate), and only items with neither are kept.
C8_HistorySuppression ==
    pc \in {"history", "save", "done"} =>
        /\ \A i \in 1..Len(dropped) :
              LET item == dropped[i][1]
                  reason == dropped[i][2]
              IN  /\ reason \in {"url", "title"}
                  /\ reason = "url" <=> item.link \in recent_urls
                  /\ reason = "title" =>
                        /\ item.link \notin recent_urls
                        /\ NormalizeTitle(item.title) \in recent_titles
        /\ \A i \in 1..Len(new_news_items) :
              /\ new_news_items[i].link \notin recent_urls
              /\ NormalizeTitle(new_news_items[i].title) \notin recent_titles
        /\ pc = "history" =>
              /\ Len(dropped) + Len(new_news_items) = idx - 1
              /\ \A i \in 1..(idx - 1) :
                    \/ news_items[i] \in Range(new_news_items)
                    \/ \E j \in 1..Len(dropped) : dropped[j][1] = news_items[i]

\* one item dropped for its URL although its title is new, another dropped for
\* its title although its URL is new
C8_Witness ==
    /\ pc = "history"
    /\ \E i \in 1..Len(dropped) :
          /\ dropped[i][2] = "url"
          /\ NormalizeTitle(dropped[i][1].title) \notin recent_titles
    /\ \E i \in 1..Len(dropped) :
          /\ dropped[i][2] = "title"
          /\ dropped[i][1].link \notin recent_urls

\* a row is written by save_all_news_background
Written == {saved[i][2] : i \in 1..Len(saved)}

\* C9: every item handed to persistence has passed BatchGate (isRelevant and
\* score >= 75), SimilarityDeduplicator and HistoryDeduplicator, the first write
\* comes after history suppression has finished, and no dropped item is written.
C9_WrittenPassedAllStages ==
    /\ saved # <<>> => pc \in {"save", "done"}
    /\ \A w \in Written :
          /\ Relevant75(w)
          /\ w.link \notin recent_urls
          /\ NormalizeTitle(w.title) \notin recent_titles
          /\ \A i \in 1..Len(dropped) : dropped[i][1].link # w.link
                                         \/ dropped[i][1].title # w.title
    /\ \A w1 \in Written : \A w2 \in Written :
          w1 # w2 => ~SimilarAtLeast(w1.title, w2.title, SimThresholdNum, SimThresholdDen)
                     \/ ~SimilarAtLeast(w2.title, w1.title, SimThresholdNum, SimThresholdDen)

\* The part of C9 that does not rest on the type of is_relevant: with the gate's
\* own test (a true value of is_relevant, a score of 75 or more) in place of
\* Relevant75, every written item passed the three stages and no write comes
\* before the end of the history step.
WrittenAfterAllStages ==
    /\ saved # <<>> => pc \in {"save", "done"}
    /\ \A w \in Written :
          /\ Truthy(w["is_relevant"]) /\ w["relevance_score"][2] >= 75
          /\ w.link \notin recent_urls
          /\ NormalizeTitle(w.title) \notin recent_titles

\* C10: recent_urls and recent_titles are read once and do not change while the
\* batch is processed; an item is kept exactly when neither its URL nor its
\* normalized title is in the snapshot, whatever was kept before it.
C10_FrozenSnapshot ==
    [][ /\ pc # "read_history" =>
              recent_urls' = recent_urls /\ recent_titles' = recent_titles
        /\ (pc = "history" /\ pc' = "history") =>
              (new_news_items' # new_news_items
                 <=> /\ news_items[idx].link \notin recent_urls
                     /\ NormalizeTitle(news_items[idx].title) \notin recent_titles)
      ]_vars

\* two items with one URL are both kept: the first did not enter the snapshot
C10_Witness ==
    /\ pc = "history"
    /\ Len(new_news_items) = 2
    /\ new_news_items[1].link = new_news_items[2].link

\* the writes and failed writes of the item at position i (counted from 0)
Attempts(i) ==
    { k \in 1..Len(events) :
        /\ events[k][2] = i
        /\ events[k][1] \in {"csv", "csv_failed", "gsheet", "gsheet_failed"} }

Delays == {k \in 1..Len(events) : events[k][1] = "sleep"}

\* the number of items save_all_news_background has gone through
SaveCount ==
    IF pc = "save" THEN idx - 1
    ELSE IF outcome = "completed" THEN Len(news_items)
    ELSE 0

\* C15: in save_all_news_background no delay comes before the writes of the
\* item at position 0, exactly one delay comes between the writes of every item
\* at position >= 1 and those of the item before it, and the writes of every
\* item are tried, whether or not a write of an earlier item failed.
C15_PacingBetweenWrites ==
    pc \in {"save", "done"} =>
        /\ \A i \in 0..(SaveCount - 1) :
              /\ Cardinality(Attempts(i)) = 2
              /\ i = 0 => \A d \in Delays : \E k \in Attempts(0) : k < d
              /\ i >= 1 =>
                    Cardinality({d \in Delays :
                                   /\ \A k \in Attempts(i - 1) : k < d
                                   /\ \A k \in Attempts(i) : d < k}) = 1
        /\ Cardinality(Delays) = (IF SaveCount = 0 THEN 0 ELSE SaveCount - 1)
        /\ (pc = "done" /\ outcome = "completed") => SaveCount = Len(new_news_items)

\* both writes of the first item failed, the second item was written after one
\* delay
C15_Witness ==
    /\ pc = "done"
    /\ outcome = "completed"
    /\ events = << <<"csv_failed", 0>>, <<"gsheet_failed", 0>>, <<"sleep", 1>>,
                   <<"csv", 1>>, <<"gsheet", 1>> >>

\* C16: when no item survives the filter, or none survives the history step,
\* the run ends normally: nothing is written, and the statistics say what
\* happened: the items fetched, the items that passed the filter, 0 saved.
C16_EmptyBatchCompleteStats ==
    (/\ pc = "done"
     /\ fault = ""
     /\ outcome \in {"no_news", "no_new_news"}
     /\ Len(processed) + Len(dropped) > 0)
        => /\ saved = <<>>
           /\ events = <<>>
           /\ stats.total_saved = 0
           /\ stats.total_fetched = TotalFetched
           /\ outcome = "no_news" => stats.total_filtered = 0
           /\ outcome = "no_new_news" => stats.total_filtered >= Len(dropped)

\* What holds of the two empty outcomes: nothing is written and total_saved is
\* 0; total_fetched is set only when an item passed the filter.
EmptyBatchWritesNothing ==
    (pc = "done" /\ outcome \in {"no_news", "no_new_news"})
        => /\ saved = <<>>
           /\ events = <<>>
           /\ stats.total_saved = 0
           /\ outcome = "no_news" => stats.total_fetched = 0
           /\ outcome = "no_new_news" => stats.total_fetched = TotalFetched

\* C19: in filter_news_batch the items gone through are the accepted ones plus
\* the sum of the four counters (a rejected item is counted once, an accepted
\* one not at all); an item that is_headline_news rejects is counted under
\* headline, one that check_celebrity_scandal rejects under celebrity_scandal.
C19_RejectionCounters ==
    pc \in {"filter", "searched"} =>
        LET n == IF pc = "filter" THEN idx - 1 ELSE Len(processed)
            headlines == {i \in 1..n : is_headline_news(processed[i].terms)}
            scandals  == {i \in (1..n) \ headlines :
                            check_celebrity_scandal(processed[i].terms).should_exclude}
        IN  /\ n = Len(filtered) + filter_stats.headline
                     + filter_stats.celebrity_scandal + filter_stats.low_score
                     + filter_stats.not_relevant
            /\ filter_stats.headline >= Cardinality(headlines)
            /\ filter_stats.celebrity_scandal >= Cardinality(scandals)
            /\ \A c \in DOMAIN filter_stats : filter_stats[c] >= 0

\* a batch of a headline item and a celebrity-scandal item
C19_Witness ==
    /\ pc = "searched"
    /\ Len(processed) = 2
    /\ filter_stats.headline = 1
    /\ filter_stats.celebrity_scandal = 1


=============================================================================
